---- MODULE Spec2Model ----
(***************************************************************************)
(* Vulnerability detectors of checker/src/contract_errors.rs.              *)
(*                                                                         *)
(* ReentrancyChecker accumulates, for one function body, the content of    *)
(* every basic block, the blocks that hold a lamport transfer and the      *)
(* place that holds the user's balance; check() then looks for a write to  *)
(* that place in a block after the last transfer.  The three flag          *)
(* detectors keep one boolean each.                                        *)
(***************************************************************************)
EXTENDS Integers, Sequences, FiniteSets, TLC

(* ------------------------------ bounds --------------------------------- *)

\* basic blocks are bb0 .. bb<MaxBlock>
MaxBlock == 1
\* number of statements / terminators retained over all blocks
MaxItems == 1
\* MIR locals are _1 .. _<NumLocals>
NumLocals == 2
\* number of observed calls kept in the call history (CallSpec)
MaxCalls == 2
\* number of record invocations kept in the record history (FlagSpec)
MaxRecords == 3
\* source spans other than DUMMY_SP are 1 .. NumSpans
NumSpans == 2

(* ------------------------------ values --------------------------------- *)

BasicBlocks == 0 .. MaxBlock
Locals == 1 .. NumLocals
Projections == {<<>>, <<"Field">>}

\* mir::Place: a base local and a projection path
Place == [local : Locals, projection : Projections]

\* Option<T>
None == <<>>
Some(x) == <<x>>
OptionPlace == {None} \cup {Some(p) : p \in Place}

\* BlockStatement::Statement(Assign(box (place, _)))
Assign(p) ==
    [tag |-> "Statement", kind |-> "Assign", msg |-> "", op |-> "",
     operand |-> "", place |-> Some(p)]

\* BlockStatement::Statement of any other kind
Nop ==
    [tag |-> "Statement", kind |-> "Nop", msg |-> "", op |-> "",
     operand |-> "", place |-> None]

\* BlockStatement::TerminatorKind(Assert { msg: Overflow(op, operand(p), _) })
AssertOverflow(o, opnd, p) ==
    [tag |-> "TerminatorKind", kind |-> "Assert", msg |-> "Overflow", op |-> o,
     operand |-> opnd, place |-> Some(p)]

\* BlockStatement::TerminatorKind of any other kind
Return ==
    [tag |-> "TerminatorKind", kind |-> "Return", msg |-> "", op |-> "",
     operand |-> "", place |-> None]

\* the place used by the terminators that differ from the searched pattern in
\* one component only (operand kind, operator)
PlainPlace == [local |-> 1, projection |-> <<>>]

BlockStatement ==
    {Assign(p) : p \in Place} \cup {Nop}
    \cup {AssertOverflow("Sub", "Copy", p) : p \in Place}
    \cup {AssertOverflow("Sub", "Move", PlainPlace),
          AssertOverflow("Add", "Copy", PlainPlace), Return}

\* signature tables of the driver
BalanceReadSigs == {"HashMap::get_mut"}
TransferSigs == {"AccountInfo::try_borrow_mut_lamports"}
OtherCallees == {"msg"}
Callees == BalanceReadSigs \cup TransferSigs \cup OtherCallees

DUMMY_SP == 0
Spans == 1 .. NumSpans

(* ------------------------------- state --------------------------------- *)

VARIABLES
    \* ReentrancyChecker
    block_statements,
    function_lamport_transfer,
    function_lamport_transfer_iter,
    temporary_variable_for_balance,
    check_for_balance_variable,
    current_assign_destination,
    starting_reentrancy_span,
    ending_reentrancy_span,
    \* BadrandomnessChecker, TimeManipulationChecker, NumericalPrecisionErrorChecker
    check_for_rand_lib,
    bad_randomness_span,
    check_for_clock_lib,
    time_manipulation_span,
    check_for_round_func,
    numerical_precision_error_span,
    \* the driver: its position in the pass and what the check() calls returned
    pc,
    is_reentrancy,
    flag_result,
    \* histories of the hook invocations
    call_log,
    record_log

reentrancy_vars ==
    <<block_statements, function_lamport_transfer, function_lamport_transfer_iter,
      temporary_variable_for_balance, check_for_balance_variable,
      current_assign_destination, starting_reentrancy_span, ending_reentrancy_span>>

flag_vars ==
    <<check_for_rand_lib, bad_randomness_span, check_for_clock_lib,
      time_manipulation_span, check_for_round_func, numerical_precision_error_span>>

vars ==
    <<reentrancy_vars, flag_vars, pc, is_reentrancy, flag_result, call_log, record_log>>

(* ------------------------------ helpers -------------------------------- *)

\* the orders in which a hash table may iterate over the keys S
IterationOrders(S) ==
    {s \in [1 .. Cardinality(S) -> S] : \A i, j \in 1 .. Cardinality(S) : s[i] = s[j] => i = j}

\* Iterator::last
IterLast(s) == IF Len(s) = 0 THEN None ELSE Some(s[Len(s)])

RECURSIVE TotalLen(_, _)
TotalLen(f, S) ==
    IF S = {} THEN 0
    ELSE LET b == CHOOSE x \in S : TRUE IN Len(f[b]) + TotalLen(f, S \ {b})

RetainedItems == TotalLen(block_statements, DOMAIN block_statements)

(* ------------------------- ReentrancyChecker --------------------------- *)

\* visit_reentrancy_statement, with a whole-place comparison
visit_reentrancy_statement_whole_place(bs) ==
    IF bs.kind = "Assign"
    THEN IF temporary_variable_for_balance # None
         THEN temporary_variable_for_balance[1] = bs.place[1]
         ELSE FALSE
    ELSE FALSE

\* visit_reentrancy_statement, without the guard on the tracked place being set
visit_reentrancy_statement_unguarded(bs) ==
    IF bs.kind = "Assign"
    THEN IF temporary_variable_for_balance # None
         THEN temporary_variable_for_balance[1].local = bs.place[1].local
         ELSE TRUE
    ELSE FALSE

visit_reentrancy_statement(bs) ==
    IF bs.kind = "Assign"
    THEN IF temporary_variable_for_balance # None
         THEN temporary_variable_for_balance[1].local = bs.place[1].local
         ELSE FALSE
    ELSE FALSE

\* visit_reentrancy_terminator, matching Operand::Move in place of Operand::Copy
visit_reentrancy_terminator_move(bs) ==
    IF bs.kind = "Assert"
    THEN IF bs.msg = "Overflow" /\ bs.op = "Sub"
         THEN IF bs.operand = "Move"
              THEN IF temporary_variable_for_balance # None
                   THEN temporary_variable_for_balance[1].local = bs.place[1].local
                   ELSE FALSE
              ELSE FALSE
         ELSE FALSE
    ELSE FALSE

\* visit_reentrancy_terminator, with a whole-place comparison
visit_reentrancy_terminator_whole_place(bs) ==
    IF bs.kind = "Assert"
    THEN IF bs.msg = "Overflow" /\ bs.op = "Sub"
         THEN IF bs.operand = "Copy"
              THEN IF temporary_variable_for_balance # None
                   THEN temporary_variable_for_balance[1] = bs.place[1]
                   ELSE FALSE
              ELSE FALSE
         ELSE FALSE
    ELSE FALSE

visit_reentrancy_terminator(bs) ==
    IF bs.kind = "Assert"
    THEN IF bs.msg = "Overflow" /\ bs.op = "Sub"
         THEN IF bs.operand = "Copy"
              THEN IF temporary_variable_for_balance # None
                   THEN temporary_variable_for_balance[1].local = bs.place[1].local
                   ELSE FALSE
              ELSE FALSE
         ELSE FALSE
    ELSE FALSE

\* the inner loop of check(): the items of one block from position i on
RECURSIVE scan_block(_, _, _)
scan_block(items, i, acc) ==
    IF i > Len(items) THEN acc
    ELSE LET bs == items[i]
             after_statement ==
                 IF bs.tag = "Statement" THEN visit_reentrancy_statement(bs) \/ acc ELSE acc
         IN  IF bs.tag = "Statement" /\ after_statement
             THEN after_statement
             ELSE LET after_terminator ==
                          IF bs.tag = "TerminatorKind"
                          THEN visit_reentrancy_terminator(bs) \/ after_statement
                          ELSE after_statement
                  IN  IF bs.tag = "TerminatorKind" /\ after_terminator
                      THEN after_terminator
                      ELSE scan_block(items, i + 1, after_terminator)

\* the outer loop of check(), skipping only the blocks before the last transfer
RECURSIVE scan_blocks_inclusive(_, _, _, _)
scan_blocks_inclusive(block_iter, j, last_bb, acc) ==
    IF j > Len(block_iter) THEN acc
    ELSE LET bb == block_iter[j]
         IN  IF bb < last_bb
             THEN scan_blocks_inclusive(block_iter, j + 1, last_bb, acc)
             ELSE scan_blocks_inclusive(block_iter, j + 1, last_bb,
                                        scan_block(block_statements[bb], 1, acc))

\* the outer loop of check(): the blocks in the table's iteration order
RECURSIVE scan_blocks(_, _, _, _)
scan_blocks(block_iter, j, last_bb, acc) ==
    IF j > Len(block_iter) THEN acc
    ELSE LET bb == block_iter[j]
         IN  IF bb <= last_bb
             THEN scan_blocks(block_iter, j + 1, last_bb, acc)
             ELSE scan_blocks(block_iter, j + 1, last_bb,
                              scan_block(block_statements[bb], 1, acc))

\* check(), scanning every block when no transfer is recorded
check_without_transfer_guard(block_iter) ==
    LET last == IterLast(function_lamport_transfer_iter)
    IN  IF last # None
        THEN scan_blocks(block_iter, 1, last[1], FALSE)
        ELSE scan_blocks(block_iter, 1, -1, FALSE)

\* check(), block_iter being the iteration order of block_statements
check(block_iter) ==
    IF DOMAIN function_lamport_transfer = {} THEN FALSE
    ELSE LET last == IterLast(function_lamport_transfer_iter)
         IN  IF last # None
             THEN scan_blocks(block_iter, 1, last[1], FALSE)
             ELSE FALSE

(* --------------------------- flag detectors ---------------------------- *)

BadrandomnessChecker_check == check_for_rand_lib
\* TimeManipulationChecker::check, reading the flag of the bad-randomness detector
TimeManipulationChecker_check_rand_lib == check_for_rand_lib
TimeManipulationChecker_check == check_for_clock_lib
NumericalPrecisionErrorChecker_check == check_for_round_func

Detectors == {"BadRandomness", "TimeManipulation", "NumericalPrecisionError"}

(* ------------------------------- Init ---------------------------------- *)

Init ==
    /\ block_statements = <<>>
    /\ function_lamport_transfer = <<>>
    /\ function_lamport_transfer_iter = <<>>
    /\ temporary_variable_for_balance = None
    /\ check_for_balance_variable = FALSE
    /\ current_assign_destination = None
    /\ starting_reentrancy_span = 0
    /\ ending_reentrancy_span = 0
    /\ check_for_rand_lib = FALSE
    /\ bad_randomness_span = DUMMY_SP
    /\ check_for_clock_lib = FALSE
    /\ time_manipulation_span = DUMMY_SP
    /\ check_for_round_func = FALSE
    /\ numerical_precision_error_span = DUMMY_SP
    /\ pc = "visit"
    /\ is_reentrancy = None
    /\ flag_result = [d \in Detectors |-> None]
    /\ call_log = <<>>
    /\ record_log = <<>>

(* ------------------------------ actions -------------------------------- *)

\* the driver retains one statement or terminator of block bb
observe_block_content(bb, item) ==
    /\ block_statements' =
           IF bb \in DOMAIN block_statements
           THEN [block_statements EXCEPT ![bb] = Append(@, item)]
           ELSE (bb :> <<item>>) @@ block_statements
    /\ UNCHANGED <<function_lamport_transfer, function_lamport_transfer_iter,
                   temporary_variable_for_balance, check_for_balance_variable,
                   current_assign_destination, starting_reentrancy_span,
                   ending_reentrancy_span>>

\* observe_call, the last balance read replacing the tracked place
observe_call_last_wins(bb, callee, destination) ==
    /\ temporary_variable_for_balance' =
           IF callee \in BalanceReadSigs
           THEN destination
           ELSE temporary_variable_for_balance
    /\ IF callee \in TransferSigs
       THEN IF bb \in DOMAIN function_lamport_transfer
            THEN /\ function_lamport_transfer' =
                        [function_lamport_transfer EXCEPT ![bb] = callee]
                 /\ UNCHANGED function_lamport_transfer_iter
            ELSE /\ function_lamport_transfer' =
                        (bb :> callee) @@ function_lamport_transfer
                 /\ function_lamport_transfer_iter' \in
                        IterationOrders(DOMAIN function_lamport_transfer \cup {bb})
       ELSE UNCHANGED <<function_lamport_transfer, function_lamport_transfer_iter>>
    /\ UNCHANGED <<block_statements, check_for_balance_variable,
                   current_assign_destination, starting_reentrancy_span,
                   ending_reentrancy_span>>

\* the driver visits a call terminator of block bb
observe_call(bb, callee, destination) ==
    /\ temporary_variable_for_balance' =
           IF callee \in BalanceReadSigs /\ temporary_variable_for_balance = None
           THEN destination
           ELSE temporary_variable_for_balance
    /\ IF callee \in TransferSigs
       THEN IF bb \in DOMAIN function_lamport_transfer
            THEN /\ function_lamport_transfer' =
                        [function_lamport_transfer EXCEPT ![bb] = callee]
                 /\ UNCHANGED function_lamport_transfer_iter
            ELSE /\ function_lamport_transfer' =
                        (bb :> callee) @@ function_lamport_transfer
                 /\ function_lamport_transfer_iter' \in
                        IterationOrders(DOMAIN function_lamport_transfer \cup {bb})
       ELSE UNCHANGED <<function_lamport_transfer, function_lamport_transfer_iter>>
    /\ UNCHANGED <<block_statements, check_for_balance_variable,
                   current_assign_destination, starting_reentrancy_span,
                   ending_reentrancy_span>>

ObserveBlockContent ==
    /\ pc = "visit"
    /\ RetainedItems < MaxItems
    /\ \E bb \in BasicBlocks, item \in BlockStatement : observe_block_content(bb, item)
    /\ UNCHANGED <<flag_vars, pc, is_reentrancy, flag_result, call_log, record_log>>

\* the calls the driver may observe: a balance read stores the balance into a place
CallInputs ==
    {c \in [bb : BasicBlocks, callee : Callees, destination : OptionPlace] :
         c.callee \in BalanceReadSigs => c.destination # None}

ObserveCall ==
    /\ pc = "visit"
    /\ \E c \in CallInputs : observe_call(c.bb, c.callee, c.destination)
    /\ UNCHANGED <<flag_vars, pc, is_reentrancy, flag_result, call_log, record_log>>

\* ObserveCall, the call being appended to the call history
ObserveCallLogged ==
    /\ pc = "visit"
    /\ Len(call_log) < MaxCalls
    /\ \E c \in CallInputs :
           /\ observe_call(c.bb, c.callee, c.destination)
           /\ call_log' = Append(call_log, c)
    /\ UNCHANGED <<flag_vars, pc, is_reentrancy, flag_result, record_log>>

\* the driver calls ReentrancyChecker::check after the pass
Check ==
    /\ \E block_iter \in IterationOrders(DOMAIN block_statements) :
           is_reentrancy' = Some(check(block_iter))
    /\ pc' = "checked"
    /\ UNCHANGED <<reentrancy_vars, flag_vars, flag_result, call_log, record_log>>

\* the hooks of the three flag detectors
record_bad_randomness(span) ==
    /\ check_for_rand_lib' = TRUE
    /\ bad_randomness_span' = IF check_for_rand_lib THEN bad_randomness_span ELSE span
    /\ UNCHANGED <<check_for_clock_lib, time_manipulation_span, check_for_round_func,
                   numerical_precision_error_span>>

record_time_manipulation(span) ==
    /\ check_for_clock_lib' = TRUE
    /\ time_manipulation_span' = IF check_for_clock_lib THEN time_manipulation_span ELSE span
    /\ UNCHANGED <<check_for_rand_lib, bad_randomness_span, check_for_round_func,
                   numerical_precision_error_span>>

record_numerical_precision_error(span) ==
    /\ check_for_round_func' = TRUE
    /\ numerical_precision_error_span' =
           IF check_for_round_func THEN numerical_precision_error_span ELSE span
    /\ UNCHANGED <<check_for_rand_lib, bad_randomness_span, check_for_clock_lib,
                   time_manipulation_span>>

RecordBadRandomness ==
    /\ pc = "visit"
    /\ Len(record_log) < MaxRecords
    /\ \E span \in Spans :
           /\ record_bad_randomness(span)
           /\ record_log' = Append(record_log, [detector |-> "BadRandomness", span |-> span])
    /\ UNCHANGED <<reentrancy_vars, pc, is_reentrancy, flag_result, call_log>>

RecordTimeManipulation ==
    /\ pc = "visit"
    /\ Len(record_log) < MaxRecords
    /\ \E span \in Spans :
           /\ record_time_manipulation(span)
           /\ record_log' = Append(record_log, [detector |-> "TimeManipulation", span |-> span])
    /\ UNCHANGED <<reentrancy_vars, pc, is_reentrancy, flag_result, call_log>>

RecordNumericalPrecisionError ==
    /\ pc = "visit"
    /\ Len(record_log) < MaxRecords
    /\ \E span \in Spans :
           /\ record_numerical_precision_error(span)
           /\ record_log' =
                  Append(record_log, [detector |-> "NumericalPrecisionError", span |-> span])
    /\ UNCHANGED <<reentrancy_vars, pc, is_reentrancy, flag_result, call_log>>

\* the driver calls check() of a flag detector after the pass
CheckBadRandomness ==
    /\ flag_result' =
           [flag_result EXCEPT !["BadRandomness"] = Some(BadrandomnessChecker_check)]
    /\ pc' = "checked"
    /\ UNCHANGED <<reentrancy_vars, flag_vars, is_reentrancy, call_log, record_log>>

CheckTimeManipulation ==
    /\ flag_result' =
           [flag_result EXCEPT !["TimeManipulation"] = Some(TimeManipulationChecker_check)]
    /\ pc' = "checked"
    /\ UNCHANGED <<reentrancy_vars, flag_vars, is_reentrancy, call_log, record_log>>

CheckNumericalPrecisionError ==
    /\ flag_result' =
           [flag_result EXCEPT !["NumericalPrecisionError"] =
                                   Some(NumericalPrecisionErrorChecker_check)]
    /\ pc' = "checked"
    /\ UNCHANGED <<reentrancy_vars, flag_vars, is_reentrancy, call_log, record_log>>

(* --------------------------- specifications ---------------------------- *)

\* one pass of the reentrancy detector over a function, then check()
Next ==
    \/ ObserveBlockContent
    \/ ObserveCall
    \/ Check

Spec == Init /\ [][Next]_vars

\* the calls of one pass, with their history
CallNext == ObserveCallLogged

CallSpec == Init /\ [][CallNext]_vars

\* one pass of the three flag detectors, with the history of record
FlagNext ==
    \/ RecordBadRandomness
    \/ RecordTimeManipulation
    \/ RecordNumericalPrecisionError
    \/ CheckBadRandomness
    \/ CheckTimeManipulation
    \/ CheckNumericalPrecisionError

FlagSpec == Init /\ [][FlagNext]_vars

(* ------------------------------ properties ----------------------------- *)

TransferBlocks == DOMAIN function_lamport_transfer

\* T: the maximum block id among the recorded transfers
MaxTransferBlock == CHOOSE t \in TransferBlocks : \A u \in TransferBlocks : u <= t

Tracked == temporary_variable_for_balance # None

RetainedBlocks == DOMAIN block_statements

ItemsOf(bb) == {block_statements[bb][i] : i \in 1 .. Len(block_statements[bb])}

\* an Assign whose destination has the base of the tracked place
AssignsTracked(bs) ==
    /\ Tracked
    /\ bs.tag = "Statement" /\ bs.kind = "Assign"
    /\ bs.place[1].local = temporary_variable_for_balance[1].local

\* an overflow-checked subtraction whose left operand copies a place with the
\* base of the tracked place
SubtractsTracked(bs) ==
    /\ Tracked
    /\ bs.tag = "TerminatorKind" /\ bs.kind = "Assert" /\ bs.msg = "Overflow"
    /\ bs.op = "Sub" /\ bs.operand = "Copy"
    /\ bs.place[1].local = temporary_variable_for_balance[1].local

MutatesTracked(bs) == AssignsTracked(bs) \/ SubtractsTracked(bs)

\* check() has returned
Checked == pc = "checked" /\ is_reentrancy # None

Result == is_reentrancy[1]

\* the result the specified check() gives: a mutation of the tracked place in a
\* block after the maximum transfer block
SpecifiedCheck ==
    /\ TransferBlocks # {}
    /\ \E bb \in RetainedBlocks :
           bb > MaxTransferBlock /\ \E bs \in ItemsOf(bb) : MutatesTracked(bs)

\* C1: when transfers is not empty and every assignment to, and every overflow
\* subtraction on, the tracked place lies in a block with id <= T (the maximum
\* transfer block), check() returns false.
C1_OrderSensitiveNegative ==
    (/\ Checked
     /\ TransferBlocks # {}
     /\ \A bb \in RetainedBlocks :
            \A bs \in ItemsOf(bb) : MutatesTracked(bs) => bb <= MaxTransferBlock)
    => Result = FALSE

\* C2: when a transfer is recorded, the tracked place is set and a block after
\* the maximum transfer block T holds an assignment to a place with the base of
\* the tracked place, check() returns true.
C2_OrderSensitivePositive ==
    (/\ Checked
     /\ TransferBlocks # {}
     /\ Tracked
     /\ \E bb \in RetainedBlocks :
            bb > MaxTransferBlock /\ \E bs \in ItemsOf(bb) : AssignsTracked(bs))
    => Result = TRUE

C2_Witness ==
    /\ Checked
    /\ TransferBlocks # {}
    /\ \E bb \in RetainedBlocks :
           /\ bb > MaxTransferBlock
           /\ \E bs \in ItemsOf(bb) :
                  AssignsTracked(bs) /\ bs.place # temporary_variable_for_balance
    /\ Result = TRUE

\* C3: check() is a function of blocks, transfers and the tracked place alone:
\* the last transfer block it uses is the maximum transfer block, so its result
\* is the one the specified check gives for these three, whatever the
\* iteration order of transfers.
C3_Deterministic ==
    Checked => Result = SpecifiedCheck

\* C4: when transfers is empty check() returns false, whatever the blocks hold
\* and whether or not the tracked place is set.
C4_NoTransferNoFinding ==
    (Checked /\ TransferBlocks = {}) => Result = FALSE

C4_Witness ==
    /\ Checked
    /\ TransferBlocks = {}
    /\ \E bb \in RetainedBlocks : \E bs \in ItemsOf(bb) : AssignsTracked(bs)
    /\ Result = FALSE

\* C5: when the tracked place is set and a block after the last transfer block
\* holds an overflow-checked subtraction whose left operand copies a place with
\* the base of the tracked place, check() returns true, also when no block
\* holds an assignment to the tracked place.
C5_OverflowAssertVariant ==
    (/\ Checked
     /\ TransferBlocks # {}
     /\ Tracked
     /\ \E bb \in RetainedBlocks :
            bb > MaxTransferBlock /\ \E bs \in ItemsOf(bb) : SubtractsTracked(bs))
    => Result = TRUE

C5_Witness ==
    /\ Checked
    /\ TransferBlocks # {}
    /\ \E bb \in RetainedBlocks :
           bb > MaxTransferBlock /\ \E bs \in ItemsOf(bb) : SubtractsTracked(bs)
    /\ \A bb \in RetainedBlocks : \A bs \in ItemsOf(bb) : bs.kind # "Assign"
    /\ Result = TRUE

\* C6: when the tracked place is unset check() returns false, also when
\* transfers is not empty and blocks after the last transfer hold assignments
\* or overflow subtractions.
C6_NoBalanceTracked ==
    (Checked /\ ~Tracked) => Result = FALSE

C6_Witness ==
    /\ Checked
    /\ ~Tracked
    /\ TransferBlocks # {}
    /\ \E bb \in RetainedBlocks :
           bb > MaxTransferBlock /\ \E bs \in ItemsOf(bb) : bs.kind = "Assign"
    /\ Result = FALSE

\* the positions of the balance-read calls in the call history
BalanceReads == {i \in 1 .. Len(call_log) : call_log[i].callee \in BalanceReadSigs}

FirstBalanceRead == CHOOSE i \in BalanceReads : \A j \in BalanceReads : i <= j

\* C7: the tracked place is unset until the first balance-read call and from
\* then on is the destination of that first call, whatever calls follow.
C7_FirstMatchBinding ==
    IF BalanceReads = {}
    THEN temporary_variable_for_balance = None
    ELSE temporary_variable_for_balance = call_log[FirstBalanceRead].destination

C7_Witness ==
    /\ Cardinality(BalanceReads) = 2
    /\ call_log[1].destination # call_log[2].destination
    /\ temporary_variable_for_balance = call_log[1].destination

Recorded(d) == \E i \in 1 .. Len(record_log) : record_log[i].detector = d

\* C8: for each flag detector check() is true exactly when record was invoked
\* at least once on the instance.
C8_FlagDetectorsExact ==
    /\ BadrandomnessChecker_check = Recorded("BadRandomness")
    /\ TimeManipulationChecker_check = Recorded("TimeManipulation")
    /\ NumericalPrecisionErrorChecker_check = Recorded("NumericalPrecisionError")
    /\ \A d \in Detectors : flag_result[d] # None => flag_result[d][1] = Recorded(d)

C8_Witness ==
    /\ flag_result["BadRandomness"] = Some(TRUE)
    /\ flag_result["TimeManipulation"] = Some(FALSE)
    /\ flag_result["NumericalPrecisionError"] = Some(FALSE)
    /\ Cardinality({i \in 1 .. Len(record_log) : record_log[i].detector = "BadRandomness"}) = 2

\* a statement or terminator of the shape check() looks for, on any place
MutationShape(bs) ==
    \/ bs.tag = "Statement" /\ bs.kind = "Assign"
    \/ /\ bs.tag = "TerminatorKind" /\ bs.kind = "Assert" /\ bs.msg = "Overflow"
       /\ bs.op = "Sub" /\ bs.operand = "Copy"

\* C9: places are compared by base only: a write after the last transfer to a
\* place with the base of the tracked place makes check() true whatever the
\* projections, and when no block after a transfer holds a write to a place of
\* that base check() is false, whatever is written to other bases.
C9_PlaceIdentityByBase ==
    Checked =>
        /\ (/\ TransferBlocks # {}
            /\ Tracked
            /\ \E bb \in RetainedBlocks :
                   /\ bb > MaxTransferBlock
                   /\ \E bs \in ItemsOf(bb) :
                          /\ MutationShape(bs)
                          /\ bs.place[1].local = temporary_variable_for_balance[1].local)
           => Result = TRUE
        /\ (\A bb \in RetainedBlocks :
                \A bs \in ItemsOf(bb) :
                    MutationShape(bs) /\ Tracked
                    => bs.place[1].local # temporary_variable_for_balance[1].local)
           => Result = FALSE

C9_Witness ==
    /\ Checked
    /\ TransferBlocks # {}
    /\ Tracked
    /\ \E bb \in RetainedBlocks :
           /\ bb > MaxTransferBlock
           /\ \A bs \in ItemsOf(bb) :
                  /\ SubtractsTracked(bs)
                  /\ bs.place[1].projection # temporary_variable_for_balance[1].projection
    /\ Result = TRUE

\* C10: when check() returns true, transfers is not empty, the tracked place is
\* set and some block with an id greater than that of a recorded transfer block
\* holds an assignment to, or an overflow subtraction on, a place with the base
\* of the tracked place.
C10_NoFindingWithoutEvidence ==
    (Checked /\ Result = TRUE) =>
        /\ TransferBlocks # {}
        /\ Tracked
        /\ \E t \in TransferBlocks :
               \E bb \in RetainedBlocks :
                   bb > t /\ \E bs \in ItemsOf(bb) : MutatesTracked(bs)

C10_Witness ==
    /\ Checked
    /\ Result = TRUE
    /\ \A bb \in RetainedBlocks :
           \A bs \in ItemsOf(bb) : MutatesTracked(bs) => bb <= MaxTransferBlock

====
